---- MODULE Spec2Model ----
(***************************************************************************)
(* Model of hdlparse/verilog_parser.py: the token table verilog_tokens,    *)
(* the tokenizer loop that drives it, the reducer parse_verilog, and the   *)
(* caching VerilogExtractor.                                               *)
(*                                                                         *)
(* The text is read one lexeme at a time.  A lexeme is the piece of text   *)
(* one tokenizer step consumes (a guard directive, a port header, a bare   *)
(* identifier, a comment line, ...).  Python strings the code takes apart  *)
(* or concatenates (the header remainder, type strings, define entries)    *)
(* are sequences of atoms: " ", "[", "]" and words; strings the code only  *)
(* copies are TLA+ strings.  An optional value is a sequence of length     *)
(* at most one: None is <<>>, a present value x is <<x>>.                  *)
(***************************************************************************)
EXTENDS Naturals, Sequences, FiniteSets

VARIABLES
  pc,               \* "running" | "returned" | "failed"
  failure,          \* the exception that ended the parse, "" if none
  result,           \* None until parse returns, then <<objects>>
  stack,            \* the tokenizer's state stack
  pos,              \* number of lexemes consumed so far
  family,           \* the family the text belongs to
  name, kind, mode, ptype,
  metacomments, param_items, generics, ports, sections,
  port_param_index, last_item, current_define, objects,
  last,             \* history: the lexeme just consumed, the state it was read in, the action emitted
  decl,             \* history: per port name declared in the module, the mode and type stated and
                    \* the guard open when it was last read
  hdrs,             \* history: the set of port headers reduced since the last module opening
  items,            \* history: the parameter items reduced since the last module opening
  shared,           \* heap: the index in objects of the record whose generics is the very list
                    \* the local generics names, None when there is none
  object_cache,     \* VerilogExtractor: file name -> the list parsed from it
  reads,            \* history: per file name, the number of times it was opened and read
  answer            \* history: the last call on the extractor and what it returned

vars == <<pc, failure, result, stack, pos, family, name, kind, mode, ptype,
          metacomments, param_items, generics, ports, sections,
          port_param_index, last_item, current_define, objects, last, decl, hdrs, items,
          shared, object_cache, reads, answer>>

None == <<>>
Some(x) == <<x>>

----------------------------------------------------------------------------
\* Strings as sequences of atoms.

SP == " "
Str(w) == <<w>>

RECURSIVE LStrip(_)
LStrip(s) == IF s # <<>> /\ Head(s) = SP THEN LStrip(Tail(s)) ELSE s

RECURSIVE RStrip(_)
RStrip(s) == IF s # <<>> /\ s[Len(s)] = SP THEN RStrip(SubSeq(s, 1, Len(s) - 1)) ELSE s

\* str.strip()
Strip(s) == RStrip(LStrip(s))

\* sep in s
Contains(s, sep) == \E i \in 1..Len(s) : s[i] = sep

\* str.split(sep): the pieces between the occurrences of sep, empty pieces kept
RECURSIVE Split(_, _)
Split(s, sep) ==
  IF ~Contains(s, sep) THEN <<s>>
  ELSE LET i == CHOOSE j \in 1..Len(s) : s[j] = sep /\ \A m \in 1..(j - 1) : s[m] # sep
       IN  <<SubSeq(s, 1, i - 1)>> \o Split(SubSeq(s, i + 1, Len(s)), sep)

\* str.split(): the runs of non-blank atoms
RECURSIVE SplitWS(_)
SplitWS(s) ==
  LET t == LStrip(s) IN
  IF t = <<>> THEN <<>>
  ELSE IF ~Contains(t, SP) THEN <<t>>
  ELSE LET i == CHOOSE j \in 1..Len(t) : t[j] = SP /\ \A m \in 1..(j - 1) : t[m] # SP
       IN  <<SubSeq(t, 1, i - 1)>> \o SplitWS(SubSeq(t, i + 1, Len(t)))

----------------------------------------------------------------------------
\* The texts: lexemes [k, s1, s2, rem].

Lx(k, s1, s2, rem) == [k |-> k, s1 |-> s1, s2 |-> s2, rem |-> rem]
NoLx == Lx("", "", "", <<>>)

\* Python's order on the port names used here (code points).
CodePoint(n) == CASE n = "a" -> 97 [] n = "b" -> 98 [] n = "c" -> 99 [] OTHER -> 0

\* A port header: s1 the direction keyword, rem what follows it up to the comma or
\* the closing parenthesis, s2 the identifier the header declares.
H_a == Lx("header", "input", "a", <<SP, "a">>)                                       \* input a,
H_b == Lx("header", "input", "b", <<SP, "[", "7:0", "]", SP, "b">>)                  \* input [7:0] b,
H_c == Lx("header", "output", "c", <<SP, "reg", SP, "[", "3:0", "]", SP, "c", SP>>)  \* output reg [3:0] c )
H_d == Lx("header", "input", "d", <<SP, "[", "7:0", "]", "[", "3:0", "]", SP, "d">>) \* input [7:0][3:0] d
H_e == Lx("header", "output", "e", <<SP, "[", "1", "]", "[", "2", "]", "[", "3", "]", SP, "e">>)

\* A guard directive: s1 the keyword, s2 the guarded name.  The grave accent that
\* starts a directive is left out of the keyword atoms.
G_A == Lx("guard", "ifdef", "A", <<>>)
G_B == Lx("guard", "ifndef", "B", <<>>)
L_endif == Lx("endif", "", "", <<>>)
L_foo == Lx("module", "foo", "", <<>>)
L_m == Lx("module", "m", "", <<>>)
L_endmodule == Lx("endmodule", "", "", <<>>)
Id(n) == Lx("ident", n, "", <<>>)
\* parameter [qualifier] [range]: s1 the qualifier, rem the range, empty where absent
L_parameter == Lx("param", "", "", <<>>)
L_parameter_signed == Lx("param", "signed", "", <<"[1:0]">>)
L_parameter_range == Lx("param", "", "", <<"[7:0]">>)
\* name = literal
L_WIDTH == Lx("item", "WIDTH", "8", <<>>)
L_DEPTH == Lx("item", "DEPTH", "4", <<>>)
L_close == Lx("close", "", "", <<>>)              \* ) or ;
L_comma == Lx("comma", "", "", <<>>)              \* , or ( or any other character no rule starts with
L_meta == Lx("meta", " doc", "", <<>>)            \* //# doc
L_section == Lx("section", "sec", " {{sec}}", <<>>)  \* //# {{sec}}
L_comment == Lx("comment", "", "", <<>>)          \* // ...
L_bopen == Lx("bopen", "", "", <<>>)              \* the opening of a block comment
L_bclose == Lx("bclose", "", "", <<>>)            \* its closing

\* The families of texts explored, each written with its own lexemes.
Families == {"headers", "ports", "params", "guards", "comments", "mixed", "tokens"}

Vocabulary == [f \in Families |->
  CASE f = "headers" ->
         {L_foo, H_a, H_b, H_c, H_d, H_e, Id("a"), L_close, L_endmodule}
    [] f = "ports" ->
         {L_foo, H_b, H_c, Id("a"), Id("b"), G_A, L_endif, L_close, L_endmodule}
    [] f = "params" ->
         {L_m, L_parameter, L_parameter_signed, L_WIDTH, L_DEPTH, L_comma, L_close,
          L_endmodule, G_B, L_endif}
    [] f = "guards" ->
         {G_A, G_B, L_endif, L_m, L_endmodule, L_parameter, L_WIDTH, H_b, Id("a"), L_close}
    [] f = "comments" ->
         {L_meta, L_section, L_comment, L_bopen, L_bclose, L_m, H_b, Id("a"), Id("b"),
          L_close, L_endmodule}
    [] f = "mixed" ->
         {L_m, H_c, Id("a"), L_close, L_parameter_range, L_WIDTH, L_endmodule}
    [] f = "tokens" ->
         {L_meta, L_section, L_bopen, L_bclose, G_A, L_endif, L_m, L_parameter, L_WIDTH,
          H_b, Id("a"), L_close, L_endmodule}]

Lexemes == UNION { Vocabulary[f] : f \in Families }

\* Bounds on the length of a text, in lexemes, per family.
MaxHeadersLen == 5
MaxPortsLen == 8
MaxParamsLen == 7
MaxGuardsLen == 6
MaxCommentsLen == 6
MaxMixedLen == 7
MaxTokensLen == 3

MaxLen(f) ==
  CASE f = "headers" -> MaxHeadersLen
    [] f = "ports" -> MaxPortsLen [] f = "params" -> MaxParamsLen
    [] f = "guards" -> MaxGuardsLen [] f = "comments" -> MaxCommentsLen
    [] f = "mixed" -> MaxMixedLen [] f = "tokens" -> MaxTokensLen

----------------------------------------------------------------------------
\* The token table.  A rule is (pattern, action, new state); the pattern is kept
\* as its regular expression (without the grave accents), and Matches says which
\* lexemes it matches at their first character.

P_DEFINE    == "(ifdef|ifndef)\\s+(\\w+)"
P_ENDIF     == "endif"
P_MODULE    == "\\bmodule\\s+(\\w+)\\s*"
P_BOPEN     == "/\\*"
P_META      == "//#+(.*)\\n"
P_LINE      == "//.*\\n"
P_PARAM     == "parameter\\s*(signed|integer|realtime|real|time)?\\s*(\\[[^]]+\\])?"
P_PORT      == "(input|inout|output)([a-zA-Z0-9:\\s\\[\\]_-]+)"
P_ENDMODULE == "endmodule"
P_SECTION   == "//#\\s*{{(.*)}}\\n"
P_PARAM_WS  == "\\s*parameter\\s*(signed|integer|realtime|real|time)?\\s*(\\[[^]]+\\])?"
P_ITEM      == "\\s*(.+?)\\s*=\\s*([0-9]+)\\s*"
P_COMMA     == ","
P_CLOSE     == "[);]"
P_PORT_WS   == "\\s*(input|inout|output)([a-zA-Z0-9:\\s\\[\\]_-]+)\\s*,?"
P_WORD      == "\\s*(\\w+)\\s*,?"
P_BCLOSE    == "\\*/"

Rule(pat, action, new_state) == [pat |-> pat, action |-> action, new_state |-> new_state]

verilog_tokens ==
  [ root |-> <<
      Rule(P_DEFINE, "define", ""),
      Rule(P_ENDIF, "endif", ""),
      Rule(P_MODULE, "module", "module"),
      Rule(P_BOPEN, "block_comment", "block_comment"),
      Rule(P_META, "metacomment", ""),
      Rule(P_LINE, "", "") >>,
    module |-> <<
      Rule(P_DEFINE, "define", ""),
      Rule(P_ENDIF, "endif", ""),
      Rule(P_PARAM, "parameter_start", "parameters"),
      Rule(P_PORT, "module_port_start", "module_port"),
      Rule(P_ENDMODULE, "end_module", "#pop"),
      Rule(P_BOPEN, "block_comment", "block_comment"),
      Rule(P_SECTION, "section_meta", ""),
      Rule(P_LINE, "", "") >>,
    parameters |-> <<
      Rule(P_DEFINE, "define", ""),
      Rule(P_ENDIF, "endif", ""),
      Rule(P_PARAM_WS, "parameter_start", ""),
      Rule(P_ITEM, "param_item", ""),
      Rule(P_COMMA, "", ""),
      Rule(P_CLOSE, "", "#pop") >>,
    module_port |-> <<
      Rule(P_DEFINE, "define", ""),
      Rule(P_ENDIF, "endif", ""),
      Rule(P_PORT_WS, "module_port_start", ""),
      Rule(P_WORD, "port_param", ""),
      Rule(P_CLOSE, "", "#pop"),
      Rule(P_SECTION, "section_meta", ""),
      Rule(P_LINE, "", "") >>,
    block_comment |-> <<
      Rule(P_BCLOSE, "end_comment", "#pop") >> ]

Matches(pat, lx) ==
  CASE pat = P_DEFINE    -> lx.k = "guard"
    [] pat = P_ENDIF     -> lx.k = "endif"
    [] pat = P_MODULE    -> lx.k = "module"
    [] pat = P_BOPEN     -> lx.k = "bopen"
    [] pat = P_META      -> lx.k \in {"meta", "section"}
    [] pat = P_LINE      -> lx.k \in {"meta", "section", "comment"}
    [] pat = P_PARAM     -> lx.k = "param"
    [] pat = P_PARAM_WS  -> lx.k = "param"
    [] pat = P_PORT      -> lx.k = "header"
    [] pat = P_PORT_WS   -> lx.k = "header"
    [] pat = P_ENDMODULE -> lx.k = "endmodule"
    [] pat = P_SECTION   -> lx.k = "section"
    [] pat = P_ITEM      -> lx.k = "item"
    [] pat = P_COMMA     -> lx.k = "comma"
    [] pat = P_CLOSE     -> lx.k = "close"
    [] pat = P_WORD      -> lx.k \in {"ident", "header", "module", "endmodule", "param", "item"}
    [] pat = P_BCLOSE    -> lx.k = "bclose"
    [] OTHER             -> FALSE

\* The lexemes a text may hold next in a tokenizer state: those the state's rules
\* consume whole or not at all.  In module_port the word rule would take only the
\* first word of a module opening, a closing marker or a parameter declaration.
Offered(state, lx) ==
  state = "module_port" => lx.k \notin {"module", "endmodule", "param", "item"}

\* The tokenizer: the first rule of the state, in table order, that matches at the
\* cursor; 0 when none does, and the cursor then moves on without a token.
FirstMatch(state, lx) ==
  LET rules == verilog_tokens[state]
      hits == { i \in 1..Len(rules) : Matches(rules[i].pat, lx) }
  IN  IF hits = {} THEN 0 ELSE CHOOSE i \in hits : \A j \in hits : i <= j

Top == stack[Len(stack)]

\* The action tag the tokenizer yields for lx: "" for a rule without an action,
\* "skip" when no rule matches.
Action(state, lx) ==
  LET i == FirstMatch(state, lx)
  IN  IF i = 0 THEN "skip" ELSE verilog_tokens[state][i].action

\* The state stack after the step.
NewStack(stk, lx) ==
  LET i == FirstMatch(stk[Len(stk)], lx)
      ns == IF i = 0 THEN "" ELSE verilog_tokens[stk[Len(stk)]][i].new_state
  IN  IF ns = "" THEN stk
      ELSE IF ns = "#pop" THEN SubSeq(stk, 1, Len(stk) - 1)
      ELSE Append(stk, ns)
----------------------------------------------------------------------------
\* The records.

VerilogParameter(n, m, data_type, default_value, desc, define) ==
  [name |-> n, kind |-> "unknown", mode |-> m, data_type |-> data_type,
   default_value |-> default_value, desc |-> desc, define |-> define]

VerilogModule(n, lports, gens, sects, desc, define) ==
  [name |-> n, kind |-> "module", ports |-> lports, generics |-> gens,
   sections |-> sects, desc |-> desc, define |-> define]

\* The ordered dictionary ports: a sequence of [key, val] in insertion order.
\* d[key] = val keeps the place of a key already present.
DictSet(d, key, val) ==
  IF \E i \in 1..Len(d) : d[i].key = key
  THEN [i \in 1..Len(d) |-> IF d[i].key = key THEN [key |-> key, val |-> val] ELSE d[i]]
  ELSE Append(d, [key |-> key, val |-> val])

Values(d) == [i \in 1..Len(d) |-> d[i].val]

\* the pending identifiers finalized under the guard open at the flush
RECURSIVE FlushUnderCurrentGuard(_, _, _, _)
FlushUnderCurrentGuard(d, pending, m, t) ==
  IF pending = <<>> THEN d
  ELSE FlushUnderCurrentGuard(
         DictSet(d, Head(pending),
                 VerilogParameter(Head(pending)[1], m, t, None, None,
                                  IF current_define = <<>> THEN None
                                  ELSE Some(current_define[Len(current_define)]))),
         Tail(pending), m, t)

\* for i in param_items: ports[i] = VerilogParameter(i[0], mode, ptype, define=i[1])
RECURSIVE Flush(_, _, _, _)
Flush(d, pending, m, t) ==
  IF pending = <<>> THEN d
  ELSE Flush(DictSet(d, Head(pending), VerilogParameter(Head(pending)[1], m, t, None, None, Head(pending)[2])),
             Tail(pending), m, t)

\* dict(sections): the label of the last pair recorded under each index
SectionDict(sects) ==
  [i \in { sects[j][1] : j \in 1..Len(sects) } |->
     LET js == { j \in 1..Len(sects) : sects[j][1] = i }
     IN  sects[CHOOSE j \in js : \A m \in js : m <= j][2]]

\* the ports left in the order of the dictionary
SortByNameSkipped(l) == l

\* list.sort(key=lambda x: x.name): stable, ascending by name
RECURSIVE SortByName(_)
SortByName(l) ==
  IF l = <<>> THEN <<>>
  ELSE LET front == SortByName(SubSeq(l, 1, Len(l) - 1))
           x == l[Len(l)]
           n == Cardinality({ i \in 1..Len(front) : CodePoint(front[i].name) <= CodePoint(x.name) })
       IN  SubSeq(front, 1, n) \o <<x>> \o SubSeq(front, n + 1, Len(front))

\* the outermost guard removed instead of the innermost
PopOutermost(defs) == Tail(defs)

\* current_define.pop()
Pop(defs) == SubSeq(defs, 1, Len(defs) - 1)

\* the closing marker not looking at the guards
UnterminatedIgnored(defs) == FALSE

\* the closing marker refusing only two or more open guards
UnterminatedOnlyNested(defs) == Len(defs) > 1

\* len(current_define) > 0 at the closing marker
Unterminated(defs) == Len(defs) > 0

\* the new generic put in front of the list
InsertGeneric(gens, g) == <<g>> \o gens

\* generics.append(...)
AppendGeneric(gens, g) == Append(gens, g)

\* None if len(current_define) == 0 else current_define[-1]
InnerDefine(defs) == IF Len(defs) = 0 THEN None ELSE Some(defs[Len(defs)])

\* The type string of a parameter declaration (parameter_start).
ParamType(net_type, vec_range) ==
  (IF net_type # None THEN net_type[1] ELSE <<>>)
  \o (IF vec_range # None THEN <<SP>> \o vec_range[1] ELSE <<>>)

\* The reduction of a port header (module_port_start) up to the new type string:
\* err names the exception raised on the way, "" if none.
PortHeader(group) ==
  LET second_group == Strip(group)
      bracket == Contains(second_group, "[")
      parts == Split(second_group, "[")
      first_element == Strip(parts[1])
      width == Split(Strip(parts[2]), "]")
      array == Split(Strip(parts[3]), "]")
      words == SplitWS(second_group)
      net_type == IF bracket
                  THEN (IF first_element # <<>> THEN Some(first_element) ELSE None)
                  ELSE (IF Len(words) > 1 THEN Some(words[1]) ELSE None)
      \* "vec_range = None," binds the tuple (None,): vec_range is a string only
      \* once a "[" was found, and ' ' + vec_range is a TypeError otherwise
      vec_range == IF bracket THEN <<"[">> \o width[1] \o <<"]">> ELSE <<>>
      array_spec == IF bracket /\ Len(parts) = 3
                    THEN Some(<<"[">> \o Strip(array[1]) \o <<"]">>) ELSE None
      err == IF bracket
             THEN (IF Len(parts) = 2 THEN (IF Len(width) < 2 THEN "IndexError" ELSE "")
                   ELSE IF Len(parts) = 3 THEN (IF Len(array) < 2 THEN "IndexError" ELSE "")
                   ELSE "Unknown port format")
             ELSE (IF words = <<>> THEN "IndexError" ELSE "TypeError")
      ident == IF err # "" THEN <<>>
               ELSE IF Len(parts) = 2 THEN Strip(width[2]) ELSE Strip(array[2])
      new_ptype == (IF net_type # None THEN net_type[1] ELSE <<>>)
                   \o <<SP>> \o vec_range
                   \o (IF array_spec # None THEN array_spec[1] ELSE <<>>)
  IN  [err |-> err, ident |-> ident, ptype |-> IF err # "" THEN <<>> ELSE new_ptype]
----------------------------------------------------------------------------
\* VerilogExtractor.

\* The file names asked for.
Paths == {"a.v", "b.v"}

\* What opening a file finds: no file, or its text.
Absent == <<NoLx>>
T_empty == <<>>
T_one == <<L_m, L_endmodule>>
T_two == <<L_m, L_endmodule, L_m, L_endmodule>>
T_bad == <<L_m, L_endif, L_endmodule>>
Contents == {Absent, T_empty, T_one, T_two, T_bad}

\* Bound on the number of times one file is read.
MaxReads == 2

\* parse_verilog on these texts, as the reducer below computes it: the list
\* returned, or the exception raised.
parse_verilog(text) ==
  CASE text = T_one ->
         [err |-> "", objects |-> <<VerilogModule("m", <<>>, <<>>, <<>>, <<>>, None)>>]
    [] text = T_two ->
         [err |-> "", objects |-> <<VerilogModule("m", <<>>, <<>>, <<>>, <<>>, None),
                                    VerilogModule("m", <<>>, <<>>, <<>>, <<>>, None)>>]
    [] text = T_bad ->
         [err |-> "No matching ifdef or ifndef for the endif", objects |-> <<>>]
    [] OTHER -> [err |-> "", objects |-> <<>>]

\* type_filter: None, or one of the classes.
Filters == {None, Some("VerilogObject"), Some("VerilogModule"), Some("VerilogParameter")}

\* the class a record was built by
ClassOf(o) == IF o.kind = "module" THEN "VerilogModule" ELSE "VerilogParameter"

\* isinstance: VerilogModule and VerilogParameter both derive from VerilogObject
IsInstance(o, cls) == cls = ClassOf(o) \/ cls = "VerilogObject"

\* if type_filter: objects = [o for o in objects if isinstance(o, type_filter)]
Filtered(objs, type_filter) ==
  IF type_filter = None THEN objs
  ELSE SelectSeq(objs, LAMBDA o : IsInstance(o, type_filter[1]))

\* the lookup always missing
CachedNever(cache, fname) == FALSE

\* fname in self.object_cache
Cached(cache, fname) == fname \in DOMAIN cache

\* self.object_cache[fname] = objects
CacheStore(cache, fname, objs) ==
  [p \in DOMAIN cache \cup {fname} |-> IF p = fname THEN objs ELSE cache[p]]

Answer(op, fname, type_filter, text, err, objs) ==
  [op |-> op, fname |-> fname, type_filter |-> type_filter, text |-> text,
   err |-> err, objects |-> objs]
NoAnswer == Answer("", "", None, None, "", <<>>)

extractor == <<object_cache, reads, answer>>

\* VerilogExtractor(): an empty cache.
Constructed ==
  /\ object_cache = <<>>
  /\ reads = [p \in Paths |-> 0]
  /\ answer = NoAnswer

----------------------------------------------------------------------------
\* parse_verilog.

Init ==
  /\ pc = "running" /\ failure = "" /\ result = None
  /\ stack = <<"root">> /\ pos = 0 /\ family \in Families
  /\ name = None /\ kind = None /\ mode = "input" /\ ptype = <<"wire">>
  /\ metacomments = <<>> /\ param_items = <<>> /\ generics = <<>> /\ ports = <<>>
  /\ sections = <<>> /\ port_param_index = 0 /\ last_item = None
  /\ current_define = <<>> /\ objects = <<>>
  /\ last = [lx |-> NoLx, state |-> "", action |-> ""]
  /\ decl = <<>> /\ hdrs = {} /\ items = <<>> /\ shared = None
  /\ Constructed

reducer == <<name, kind, mode, ptype, metacomments, param_items, generics, ports,
             sections, port_param_index, last_item, current_define, objects, shared>>

\* parse_verilog is left: its frame and the tokenizer are gone.  objects and
\* current_define are kept in the model as the record of what the call had
\* collected and of the guards open when it ended.
Left ==
  /\ stack' = <<>> /\ name' = None /\ kind' = None /\ mode' = "" /\ ptype' = <<>>
  /\ metacomments' = <<>> /\ param_items' = <<>> /\ generics' = <<>> /\ ports' = <<>>
  /\ sections' = <<>> /\ port_param_index' = 0 /\ last_item' = None
  /\ shared' = None
  /\ decl' = <<>> /\ hdrs' = {} /\ items' = <<>>
  /\ UNCHANGED <<pos, family, objects, current_define>>

\* The tokenizer hands over lx, read in the state on top of the stack, as action act.
Reads(lx, act) ==
  /\ pc = "running" /\ pos < MaxLen(family)
  /\ Offered(Top, lx)
  /\ Action(Top, lx) = act
  /\ last' = [lx |-> lx, state |-> Top, action |-> act]
  /\ UNCHANGED extractor

\* the cursor left where it is when no rule matches
AdvanceUnlessUnmatched(lx) ==
  /\ pos' = (IF FirstMatch(Top, lx) = 0 THEN pos ELSE pos + 1)
  /\ stack' = NewStack(stack, lx)
  /\ UNCHANGED <<pc, failure, result, family>>

\* The loop body ran to its end: the tokenizer moves on.
Advance(lx) ==
  /\ pos' = pos + 1 /\ stack' = NewStack(stack, lx)
  /\ UNCHANGED <<pc, failure, result, family>>

\* the modules collected so far handed over on a failure
RaiseWithPartial(exc) ==
  /\ pc' = "failed" /\ failure' = exc /\ result' = Some(objects)
  /\ Left

\* An exception leaves parse_verilog: the caller gets no list.
Raise(exc) ==
  /\ pc' = "failed" /\ failure' = exc /\ result' = None
  /\ Left

Metacomment ==
  \E lx \in Vocabulary[family] :
    /\ Reads(lx, "metacomment")
    /\ IF last_item = None
       THEN /\ metacomments' = Append(metacomments, IF lx.k = "section" THEN lx.s2 ELSE lx.s1)
            /\ Advance(lx)
            /\ UNCHANGED <<name, kind, mode, ptype, param_items, generics, ports, sections,
                           port_param_index, last_item, current_define, objects, shared, decl, hdrs, items>>
       ELSE \* last_item is a key of ports, a tuple: it has no attribute desc
            Raise("AttributeError")

SectionMeta ==
  \E lx \in Vocabulary[family] :
    /\ Reads(lx, "section_meta")
    /\ sections' = Append(sections, <<port_param_index, lx.s1>>)
    /\ Advance(lx)
    /\ UNCHANGED <<name, kind, mode, ptype, metacomments, param_items, generics, ports,
                   port_param_index, last_item, current_define, objects, shared, decl, hdrs, items>>

Define ==
  \E lx \in Vocabulary[family] :
    /\ Reads(lx, "define")
    /\ current_define' = Append(current_define, <<lx.s1, "=", lx.s2>>)
    /\ Advance(lx)
    /\ UNCHANGED <<name, kind, mode, ptype, metacomments, param_items, generics, ports,
                   sections, port_param_index, last_item, objects, shared, decl, hdrs, items>>

Endif ==
  \E lx \in Vocabulary[family] :
    /\ Reads(lx, "endif")
    /\ IF Len(current_define) = 0
       THEN Raise("No matching ifdef or ifndef for the endif")
       ELSE /\ current_define' = Pop(current_define)
            /\ Advance(lx)
            /\ UNCHANGED <<name, kind, mode, ptype, metacomments, param_items, generics, ports,
                           sections, port_param_index, last_item, objects, shared, decl, hdrs, items>>

\* the module opening leaving the accumulators of the module before it in place
ModuleKeepsAccumulators ==
  \E lx \in Vocabulary[family] :
    /\ Reads(lx, "module")
    /\ kind' = Some("module") /\ name' = Some(lx.s1)
    /\ decl' = <<>> /\ hdrs' = {} /\ items' = <<>>
    /\ Advance(lx)
    /\ UNCHANGED <<generics, ports, param_items, sections, port_param_index, shared,
                   mode, ptype, metacomments, last_item, current_define, objects>>

\* the module opening emptying the list generics in place instead of binding a new one
ModuleClearsInPlace ==
  \E lx \in Vocabulary[family] :
    /\ Reads(lx, "module")
    /\ kind' = Some("module") /\ name' = Some(lx.s1)
    /\ generics' = <<>> /\ ports' = <<>> /\ param_items' = <<>>
    /\ sections' = <<>> /\ port_param_index' = 0
    /\ objects' = IF shared = None THEN objects
                  ELSE [objects EXCEPT ![shared[1]].generics = <<>>]
    /\ decl' = <<>> /\ hdrs' = {} /\ items' = <<>>
    /\ Advance(lx)
    /\ UNCHANGED <<mode, ptype, metacomments, last_item, current_define, shared>>

Module ==
  \E lx \in Vocabulary[family] :
    /\ Reads(lx, "module")
    /\ kind' = Some("module") /\ name' = Some(lx.s1)
    /\ generics' = <<>> /\ ports' = <<>> /\ param_items' = <<>>
    /\ sections' = <<>> /\ port_param_index' = 0
    /\ shared' = None
    /\ decl' = <<>> /\ hdrs' = {} /\ items' = <<>>
    /\ Advance(lx)
    /\ UNCHANGED <<mode, ptype, metacomments, last_item, current_define, objects>>

ParameterStart ==
  \E lx \in Vocabulary[family] :
    /\ Reads(lx, "parameter_start")
    /\ ptype' = ParamType(IF lx.s1 = "" THEN None ELSE Some(Str(lx.s1)),
                          IF lx.rem = <<>> THEN None ELSE Some(lx.rem))
    /\ Advance(lx)
    /\ UNCHANGED <<name, kind, mode, metacomments, param_items, generics, ports, sections,
                   port_param_index, last_item, current_define, objects, shared, decl, hdrs, items>>

ParamItem ==
  \E lx \in Vocabulary[family] :
    /\ Reads(lx, "param_item")
    /\ generics' = AppendGeneric(generics, VerilogParameter(lx.s1, "in", ptype, Some(lx.s2), None,
                                                            InnerDefine(current_define)))
    \* the list appended to is also the generics of the record that shares it
    /\ objects' = IF shared = None THEN objects
                  ELSE [objects EXCEPT ![shared[1]].generics = generics']
    /\ items' = Append(items, lx)
    /\ Advance(lx)
    /\ UNCHANGED <<name, kind, mode, ptype, metacomments, param_items, ports, sections,
                   port_param_index, last_item, current_define, shared, decl, hdrs>>

ModulePortStart ==
  \E lx \in Vocabulary[family] :
    /\ Reads(lx, "module_port_start")
    /\ LET h == PortHeader(lx.rem) IN
       IF h.err # ""
       THEN Raise(h.err)
       ELSE /\ ports' = Flush(ports, param_items, mode, ptype)
            /\ param_items' = <<>>
            /\ last_item' = IF Len(ports') > 0 THEN Some(ports'[Len(ports')].key) ELSE last_item
            /\ mode' = lx.s1
            /\ ptype' = h.ptype
            /\ hdrs' = hdrs \cup {lx}
            /\ Advance(lx)
            /\ UNCHANGED <<name, kind, metacomments, generics, sections, port_param_index,
                           current_define, objects, shared, decl, items>>

PortParam ==
  \E lx \in Vocabulary[family] :
    /\ Reads(lx, "port_param")
    /\ param_items' = Append(param_items, <<lx.s1, InnerDefine(current_define)>>)
    /\ port_param_index' = port_param_index + 1
    /\ decl' = [n \in DOMAIN decl \cup {lx.s1} |->
                  IF n = lx.s1
                  THEN [mode |-> mode, data_type |-> ptype,
                        define |-> IF current_define = <<>> THEN None
                                   ELSE Some(current_define[Len(current_define)]),
                        times |-> IF n \in DOMAIN decl THEN 2 ELSE 1]
                  ELSE decl[n]]
    /\ Advance(lx)
    /\ UNCHANGED <<name, kind, mode, ptype, metacomments, generics, ports, sections,
                   last_item, current_define, objects, shared, hdrs, items>>

EndModule ==
  \E lx \in Vocabulary[family] :
    /\ Reads(lx, "end_module")
    /\ IF Unterminated(current_define)
       THEN Raise("is not terminated with a matching endif")
       ELSE /\ ports' = Flush(ports, param_items, mode, ptype)
            /\ objects' = Append(objects,
                 VerilogModule(name[1], SortByName(Values(ports')), generics, SectionDict(sections),
                               metacomments, InnerDefine(current_define)))
            \* vobj.generics is the list generics, not a copy of it
            /\ shared' = Some(Len(objects'))
            /\ last_item' = None
            /\ metacomments' = <<>>
            /\ Advance(lx)
            /\ UNCHANGED <<name, kind, mode, ptype, param_items, generics, sections,
                           port_param_index, current_define, decl, hdrs, items>>

\* block_comment and end_comment are yielded, and no branch of the loop handles them.
Unhandled ==
  \E lx \in Vocabulary[family] :
    /\ Reads(lx, Action(Top, lx))
    /\ Action(Top, lx) \in {"block_comment", "end_comment"}
    /\ Advance(lx)
    /\ UNCHANGED <<reducer, decl, hdrs, items>>

\* A rule without an action matched: the tokenizer yields nothing.
Silent ==
  \E lx \in Vocabulary[family] :
    /\ Reads(lx, "")
    /\ Advance(lx)
    /\ UNCHANGED <<reducer, decl, hdrs, items>>

\* No rule of the state matches: the cursor moves past the text, no token.
Skip ==
  \E lx \in Vocabulary[family] :
    /\ Reads(lx, "skip")
    /\ Advance(lx)
    /\ UNCHANGED <<reducer, decl, hdrs, items>>

\* End of the text: return objects.
Return ==
  /\ pc = "running"
  /\ pc' = "returned" /\ result' = Some(objects)
  /\ last' = [lx |-> NoLx, state |-> Top, action |-> "return"]
  /\ Left
  /\ UNCHANGED <<failure, extractor>>

Next ==
  \/ Metacomment \/ SectionMeta \/ Define \/ Endif \/ Module
  \/ ParameterStart \/ ParamItem \/ ModulePortStart \/ PortParam \/ EndModule
  \/ Unhandled \/ Silent \/ Skip \/ Return

Spec == Init /\ [][Next]_vars

\* The loop of parse_verilog is not suspended: while a step is possible, one is
\* taken.  Followed on the texts of the family that has a lexeme for every rule.
InitFair == Init /\ family = "tokens"

SpecFair == InitFair /\ [][Next]_vars /\ WF_vars(Next)

----------------------------------------------------------------------------
\* The calls on one VerilogExtractor.  No parse_verilog frame is followed here:
\* a call gets the value parse_verilog computes for the text it read.

parser == <<pc, failure, result, stack, pos, family, name, kind, mode, ptype,
            metacomments, param_items, generics, ports, sections,
            port_param_index, last_item, current_define, objects, last, decl, hdrs, items,
            shared>>

InitExtractor ==
  /\ pc = "idle" /\ failure = "" /\ result = None
  /\ stack = <<>> /\ pos = 0 /\ family = "headers"
  /\ name = None /\ kind = None /\ mode = "" /\ ptype = <<>>
  /\ metacomments = <<>> /\ param_items = <<>> /\ generics = <<>> /\ ports = <<>>
  /\ sections = <<>> /\ port_param_index = 0 /\ last_item = None
  /\ current_define = <<>> /\ objects = <<>>
  /\ last = [lx |-> NoLx, state |-> "", action |-> ""]
  /\ decl = <<>> /\ hdrs = {} /\ items = <<>> /\ shared = None
  /\ Constructed

\* extract_objects(fname, type_filter); text is what the file holds if it is opened.
ExtractObjects ==
  \E fname \in Paths, type_filter \in Filters, text \in Contents :
    /\ IF Cached(object_cache, fname)
       THEN /\ answer' = Answer("extract_objects", fname, type_filter, None, "",
                                Filtered(object_cache[fname], type_filter))
            /\ UNCHANGED <<object_cache, reads>>
       ELSE IF text = Absent
       THEN \* io.open raises
            /\ answer' = Answer("extract_objects", fname, type_filter, None, "IOError", <<>>)
            /\ UNCHANGED <<object_cache, reads>>
       ELSE /\ reads[fname] < MaxReads
            /\ reads' = [reads EXCEPT ![fname] = @ + 1]
            /\ LET parsed == parse_verilog(text) IN
               IF parsed.err # ""
               THEN /\ answer' = Answer("extract_objects", fname, type_filter, Some(text),
                                        parsed.err, <<>>)
                    /\ UNCHANGED object_cache
               ELSE /\ object_cache' = CacheStore(object_cache, fname, parsed.objects)
                    /\ answer' = Answer("extract_objects", fname, type_filter, Some(text), "",
                                        Filtered(parsed.objects, type_filter))
    /\ UNCHANGED parser

\* extract_objects_from_source(text, type_filter)
ExtractObjectsFromSource ==
  \E type_filter \in Filters, text \in Contents \ {Absent} :
    /\ LET parsed == parse_verilog(text) IN
       answer' = Answer("extract_objects_from_source", "", type_filter, Some(text), parsed.err,
                        IF parsed.err # "" THEN <<>> ELSE Filtered(parsed.objects, type_filter))
    /\ UNCHANGED <<object_cache, reads>>
    /\ UNCHANGED parser

NextExtractor == ExtractObjects \/ ExtractObjectsFromSource

SpecExtractor == InitExtractor /\ [][NextExtractor]_vars
----------------------------------------------------------------------------
\* Properties.

\* Every module record the parse holds: those collected, and those returned.
Records == { objects[i] : i \in 1..Len(objects) }
           \cup (IF result = None THEN {} ELSE { result[1][i] : i \in 1..Len(result[1]) })

\* A closing marker was just reduced into a record.
Emitted == pc = "running" /\ last.action = "end_module"
Newest == objects[Len(objects)]

PortsNamed(m, n) == { i \in 1..Len(m.ports) : m.ports[i].name = n }

\* C1: every port header reduced in a module, whether it opens the port block or
\* restates a header after a comma, has the identifier it names among the ports
\* of the module emitted at the closing marker, with the header's direction as mode.
C1_HeaderPortsEmitted ==
  Emitted =>
    \A h \in hdrs :
      \E i \in 1..Len(Newest.ports) :
        Newest.ports[i].name = h.s2 /\ Newest.ports[i].mode = h.s1

\* What the text of each header states: net-type keyword, bit-range, array dimension.
Stated(h) ==
  CASE h = H_a -> [net |-> <<>>, range |-> <<>>, array |-> <<>>]
    [] h = H_b -> [net |-> <<>>, range |-> <<"[", "7:0", "]">>, array |-> <<>>]
    [] h = H_c -> [net |-> <<"reg">>, range |-> <<"[", "3:0", "]">>, array |-> <<>>]
    [] h = H_d -> [net |-> <<>>, range |-> <<"[", "7:0", "]">>, array |-> <<"[", "3:0", "]">>]
    [] OTHER   -> [net |-> <<>>, range |-> <<>>, array |-> <<>>]

\* net-type, bit-range and array dimension in order, one space between net-type
\* and bit-range, nothing before the array dimension, no blank at either end
Concatenated(p) ==
  p.net \o (IF p.net # <<>> /\ p.range # <<>> THEN <<SP>> ELSE <<>>) \o p.range \o p.array

\* C2: the type synthesized from a port header with at most two bracketed
\* segments is the concatenation of its net-type, bit-range and array dimension,
\* without leading or trailing blanks ("" when the header states none of them).
C2_HeaderDataType ==
  (last.action = "module_port_start" /\ last.lx \in {H_a, H_b, H_c, H_d})
    => (pc = "running" /\ ptype = Concatenated(Stated(last.lx)))

\* C3: the ports of every module record are in non-decreasing order of name.
C3_PortsSorted ==
  \A m \in Records :
    \A i, j \in 1..Len(m.ports) :
      i < j => CodePoint(m.ports[i].name) <= CodePoint(m.ports[j].name)

\* a module was emitted whose ports were declared b first, then a
C3_Witness ==
  /\ Emitted
  /\ Len(ports) = 2 /\ ports[1].val.name = "b" /\ ports[2].val.name = "a"
  /\ Len(Newest.ports) = 2 /\ Newest.ports[1].name = "a" /\ Newest.ports[2].name = "b"

\* C4: the generics of an emitted module are exactly the parameter items reduced
\* between its opening and its closing marker, one record per item, in text order.
C4_GenericsInTextOrder ==
  Emitted =>
    /\ Len(Newest.generics) = Len(items)
    /\ \A i \in 1..Len(items) :
         /\ Newest.generics[i].name = items[i].s1
         /\ Newest.generics[i].default_value = Some(items[i].s2)

\* a second module emitted with WIDTH, DEPTH, WIDTH: unsorted and with a repeat
C4_Witness ==
  /\ Emitted /\ items = <<L_WIDTH, L_DEPTH, L_WIDTH>>
  /\ Len(Newest.generics) = 3

\* C5: a port identifier declared twice in a module, under whatever guards, has
\* exactly one entry in the emitted ports, with the mode and type of the header
\* that its later declaration stands under.
C5_OnePortPerName ==
  Emitted =>
    \A n \in DOMAIN decl :
      decl[n].times = 2 =>
        /\ Cardinality(PortsNamed(Newest, n)) = 1
        /\ \A i \in PortsNamed(Newest, n) :
             /\ Newest.ports[i].mode = decl[n].mode
             /\ Newest.ports[i].data_type = decl[n].data_type

\* C6: when parse returns, no guard is left open.
C6_NoGuardOpenAtReturn == pc = "returned" => current_define = <<>>

\* C7: a closing marker reduced while a guard is open ends the parse with the
\* unterminated-guard failure, and no module is emitted for it.
C7_ClosingUnderGuardFails ==
  [][(last'.action = "end_module" /\ current_define # <<>>)
       => (/\ pc' = "failed"
           /\ failure' = "is not terminated with a matching endif"
           /\ result' = None
           /\ objects' = objects)]_vars

\* the parse failed at the closing marker of a module with two guards open
C7_Witness ==
  /\ pc = "failed" /\ last.action = "end_module"
  /\ failure = "is not terminated with a matching endif"
  /\ Len(current_define) = 2

\* C8: an exit marker read in root, module, parameters or module_port is reduced
\* as endif; with no guard open the parse fails with the no-matching-guard
\* failure, otherwise exactly the innermost guard is removed.
C8_EndifPopsInnermost ==
  [][(last'.lx = L_endif /\ last'.state \in {"root", "module", "parameters", "module_port"})
       => /\ last'.action = "endif"
          /\ IF current_define = <<>>
             THEN pc' = "failed" /\ failure' = "No matching ifdef or ifndef for the endif"
             ELSE /\ pc' = "running"
                  /\ Len(current_define') = Len(current_define) - 1
                  /\ \A i \in 1..Len(current_define') : current_define'[i] = current_define[i]]_vars

\* an exit marker in a parameter list closed the inner of two guards
C8_Witness ==
  /\ pc = "running" /\ last.lx = L_endif /\ last.state = "parameters"
  /\ current_define = << <<"ifdef", "=", "A">> >>

\* C9: a parse that fails hands the caller no module records, whatever it had
\* collected; records are handed over only by a parse that returns.
C9_AllOrNothing ==
  /\ pc = "failed" => result = None
  /\ result # None => pc = "returned"

\* the parse failed after a module had been emitted
C9_Witness == pc = "failed" /\ Len(objects) >= 1

\* C10: a metacomment line read after a port record was completed becomes that
\* port's description, and one read before the module opening is appended to the
\* comments of the module emitted next.
C10_MetacommentAttaches ==
  (pc = "running" /\ last.lx = L_meta) =>
    /\ (last.state \in {"module", "module_port"} /\ ports # <<>>)
         => ports[Len(ports)].val.desc = Some(L_meta.s1)
    /\ last.state = "root"
         => (metacomments # <<>> /\ metacomments[Len(metacomments)] = L_meta.s1)

\* The ports declared in the module so far: those its headers name and its bare
\* continuation identifiers.
Declared == { h.s2 : h \in hdrs } \cup DOMAIN decl

\* C11: a section marker is recorded under the number of ports declared in the
\* module before it, header-named ports and bare identifiers alike; the indices
\* recorded in a module never decrease, and a module opening restarts them at 0.
C11_SectionIndexCountsPorts ==
  /\ (pc = "running" /\ last.action = "section_meta")
       => sections[Len(sections)][1] = Cardinality(Declared)
  /\ \A i, j \in 1..Len(sections) : i < j => sections[i][1] <= sections[j][1]
  /\ (pc = "running" /\ last.action = "module")
       => (sections = <<>> /\ port_param_index = 0)

\* C12: parse returns one module record per closing marker reduced, in the order
\* of the closing markers: a closing marker appends one record after those already
\* collected, no other token adds or removes one, and the list returned is the
\* list collected, so a module still open at the end of the text gives no record.
\* A module opening starts from empty accumulators, and the record appended at
\* the closing marker holds only what was declared since that opening: its ports
\* are identifiers read since then, its generics the items reduced since then.
C12_OneRecordPerClosing ==
  [][/\ (last'.action = "end_module" /\ pc' = "running")
          => /\ Len(objects') = Len(objects) + 1
             /\ \A i \in 1..Len(objects) : objects'[i].name = objects[i].name
             /\ LET new == objects'[Len(objects')] IN
                  /\ new.name = name[1]
                  /\ \A i \in 1..Len(new.ports) : new.ports[i].name \in DOMAIN decl
                  /\ Len(new.generics) = Len(items)
                  /\ \A i \in 1..Len(items) : new.generics[i].name = items[i].s1
     /\ (last'.action = "module")
          => (ports' = <<>> /\ generics' = <<>> /\ param_items' = <<>> /\ sections' = <<>>)
     /\ (last'.action # "end_module") => Len(objects') = Len(objects)
     /\ (pc' = "returned") => result' = Some(objects)]_vars

\* two modules were closed and returned in order, the first with a generic and
\* the second with none
C12_Witness ==
  /\ pc = "returned" /\ Len(result[1]) = 2
  /\ Len(result[1][1].generics) = 1 /\ result[1][2].generics = <<>>

\* C13: over any sequence of extract_objects calls on one extractor, a file that
\* has a cache entry is never read again and its entry is never changed or
\* removed; the entry is made by the first call that reads and parses the file
\* without failure, and is the whole list parsed, whatever filter that call had;
\* every call that returns hands over the entry restricted by its own filter.
C13_CachedOnce ==
  [][/\ \A p \in Paths :
          p \in DOMAIN object_cache
            => /\ p \in DOMAIN object_cache'
               /\ object_cache'[p] = object_cache[p]
               /\ reads'[p] = reads[p]
     /\ \A p \in Paths :
          (p \notin DOMAIN object_cache /\ p \in DOMAIN object_cache')
            => /\ answer'.fname = p /\ answer'.text # None
               /\ reads'[p] = reads[p] + 1
               /\ object_cache'[p] = parse_verilog(answer'.text[1]).objects
     /\ (answer'.op = "extract_objects" /\ answer'.err = "")
          => /\ answer'.fname \in DOMAIN object_cache'
             /\ answer'.objects = Filtered(object_cache'[answer'.fname], answer'.type_filter)]_vars

\* the first request for a file asked for parameters only and got none, and the
\* two modules parsed from the file are both in its cache entry
C13_Witness ==
  /\ answer.op = "extract_objects" /\ answer.err = ""
  /\ answer.text = Some(T_two) /\ answer.type_filter = Some("VerilogParameter")
  /\ answer.objects = <<>>
  /\ Len(object_cache[answer.fname]) = 2

C15_IdentKeepsHeaderType ==
  pc = "running" =>
    \A i \in 1..Len(ports) :
      LET p == ports[i].val IN
        (p.name \in DOMAIN decl /\ decl[p.name].times = 1)
          => (p.mode = decl[p.name].mode /\ p.data_type = decl[p.name].data_type)

\* The type a parameter statement states: its qualifier and its range, one space
\* between them when both are there, the one that is there alone otherwise.
TypeStated(lx) ==
  (IF lx.s1 # "" THEN <<lx.s1>> ELSE <<>>)
  \o (IF lx.s1 # "" /\ lx.rem # <<>> THEN <<SP>> ELSE <<>>)
  \o lx.rem

\* C16: a parameter statement makes the type it states the active type, without
\* blanks at either end ("" when it states neither qualifier nor range), and a
\* parameter item name = literal appends a generic with that name, mode "in",
\* the literal as default_value and the active type as data_type.
C16_GenericFromItem ==
  /\ (pc = "running" /\ last.action = "parameter_start") => ptype = TypeStated(last.lx)
  /\ (pc = "running" /\ last.action = "param_item")
       => LET g == generics[Len(generics)] IN
            /\ g.name = last.lx.s1 /\ g.mode = "in"
            /\ g.default_value = Some(last.lx.s2)
            /\ g.data_type = ptype

\* The number of bracketed segments in what follows the direction of a header.
Segments(rem) == Cardinality({ i \in 1..Len(rem) : rem[i] = "[" })

\* C17: a port header with more than two bracketed segments ends the parse with
\* the unknown-port-format failure; one with two, one or none is reduced and
\* the parse goes on.
C17_HeaderSegments ==
  (last.action = "module_port_start" /\ last.lx.k = "header") =>
    IF Segments(last.lx.rem) > 2
    THEN pc = "failed" /\ failure = "Unknown port format"
    ELSE pc = "running"

\* The guard on top of the define stack, none when no guard is open.
TopGuard == IF current_define = <<>> THEN None ELSE Some(current_define[Len(current_define)])

\* C18: a record carries as define the guard that was on top of the define stack
\* when its identifier was consumed, none if no guard was open then.  A parameter
\* item's generic gets it at once and keeps it; a bare port identifier is buffered
\* with it, and the port finalized from the buffer, at the next header or at the
\* closing marker, carries the buffered guard whatever guards were entered or
\* left in between.
C18_DefineAtConsumption ==
  [][pc' = "running" =>
       /\ last'.action = "param_item" => generics'[Len(generics')].define = TopGuard
       /\ last'.action # "module"
            => \A i \in 1..Len(generics) : generics'[i].define = generics[i].define
       /\ last'.action = "port_param"
            => param_items'[Len(param_items')] = <<last'.lx.s1, TopGuard>>
       /\ \A i \in 1..Len(ports') :
            /\ ports'[i].val.name = ports'[i].key[1]
            /\ ports'[i].val.define = ports'[i].key[2]
       /\ \A n \in DOMAIN decl' :
            (\A j \in 1..Len(param_items') : param_items'[j][1] # n)
              => \E i \in 1..Len(ports') :
                   ports'[i].val.name = n /\ ports'[i].val.define = decl'[n].define
       /\ last'.action = "end_module"
            => LET new == objects'[Len(objects')] IN
                 /\ \A i \in 1..Len(new.ports) :
                      \E j \in 1..Len(ports') : ports'[j].val = new.ports[i]
                 /\ new.generics = generics]_vars

\* no guard is open, and the port a, read while the guard A was open, has been
\* finalized with that guard
C18_Witness ==
  /\ pc = "running" /\ current_define = <<>>
  /\ \E i \in 1..Len(ports) :
       ports[i].val.name = "a" /\ ports[i].val.define = Some(<<"ifdef", "=", "A">>)

\* C19: a module record, once emitted at its closing marker, is changed by no
\* later token of the parse: while the parse runs every record collected stays
\* as it is, in its place, and the list parse returns holds the records as they
\* were emitted.
C19_EmittedRecordsFrozen ==
  [][/\ pc' = "running"
          => /\ Len(objects') >= Len(objects)
             /\ \A i \in 1..Len(objects) : objects'[i] = objects[i]
     /\ pc' = "returned"
          => /\ Len(result'[1]) = Len(objects)
             /\ \A i \in 1..Len(objects) : result'[1][i] = objects[i]]_vars

\* a module without parameters was emitted, the first parameter item of the
\* module after it has been appended to generics, and the record emitted still
\* has no generics
C19_Witness ==
  /\ pc = "running" /\ last.action = "param_item"
  /\ Len(objects) = 1 /\ objects[1].generics = <<>>
  /\ Len(generics) = 1

\* C20: every module record parse collects or returns has define none: a record
\* is emitted only at a closing marker reduced with no guard open, and a module
\* enclosed in a guard that is still open at its closing marker makes the parse
\* fail there, with nothing returned.
C20_ModuleDefineNone ==
  /\ \A m \in Records : m.define = None
  /\ (last.action = "end_module" /\ current_define # <<>>)
       => (pc = "failed" /\ result = None)

\* the text opened the guard A, then a module, and the parse failed at the
\* closing marker of the module with the guard still open
C20_Witness ==
  /\ pc = "failed" /\ last.action = "end_module" /\ pos = 2
  /\ current_define = << <<"ifdef", "=", "A">> >>
  /\ result = None
====
